---- MODULE Spec2Model ----
(***************************************************************************)
(* Portfolio page script (src/script.js): the project filter / search /   *)
(* deep-link widget of initProjects, together with the second, top-level  *)
(* filter script of the same file that is attached to the same DOM nodes. *)
(*                                                                         *)
(* The theme switch, the details modal and the mobile nav of the same      *)
(* file are modelled too.  They share no state with the filter except the *)
(* load-time code, so each group of handlers has a specification of its   *)
(* own over the same variables and the same load-time actions: Spec (the  *)
(* filter and the URL), SpecApi (setFilter / setQuery called directly),   *)
(* SpecTheme and SpecModal.                                                *)
(*                                                                         *)
(* Text is a sequence of one-character strings.  The literals the code    *)
(* compares against as a whole ("#projects", "tag", "query", "all") and   *)
(* the percent escapes are single elements of such a sequence.            *)
(***************************************************************************)
EXTENDS Integers, Sequences, FiniteSets, TLC

(***************************************************************************)
(* Text helpers                                                            *)
(***************************************************************************)
\* String.prototype.toLowerCase, per character
Lower(c) == CASE c = "O" -> "o"
              [] c = "S" -> "s"
              [] c = "W" -> "w"
              [] OTHER -> c

\* the characters \s of a regular expression and String.prototype.trim share
IsWs(c) == c \in {" ", "\t"}

toLowerCase(s) == [i \in 1..Len(s) |-> Lower(s[i])]

RECURSIVE trimStart(_)
trimStart(s) == IF s = <<>> THEN s
                ELSE IF IsWs(Head(s)) THEN trimStart(Tail(s)) ELSE s

RECURSIVE trimEnd(_)
trimEnd(s) == IF s = <<>> THEN s
              ELSE IF IsWs(s[Len(s)]) THEN trimEnd(SubSeq(s, 1, Len(s) - 1)) ELSE s

trim(s) == trimEnd(trimStart(s))

\* s.replace(/\s+/g, ' ')
RECURSIVE collapseWs(_)
collapseWs(s) == IF s = <<>> THEN s
                 ELSE IF IsWs(Head(s)) THEN <<" ">> \o collapseWs(trimStart(s))
                 ELSE <<Head(s)>> \o collapseWs(Tail(s))

\* the value a getter gives when there is nothing: null
Null == <<"(null)">>

\* the values that are not strings: undefined, and a number given by its
\* decimal digits
Undefined == <<"(undefined)">>
NumberValue(digits) == <<"(number)">> \o digits

\* a mutation of toStringOrEmpty: String(str), which spells null and undefined
toStringOrEmpty_Spelled(str) ==
  IF str = Null THEN <<"n", "u", "l", "l">>
  ELSE IF str = Undefined THEN <<"u", "n", "d", "e", "f", "i", "n", "e", "d">>
  ELSE IF str # <<>> /\ Head(str) = "(number)" THEN Tail(str)
  ELSE str

\* (str ?? '').toString()
toStringOrEmpty(str) ==
  IF str \in {Null, Undefined} THEN <<>>
  ELSE IF str # <<>> /\ Head(str) = "(number)" THEN Tail(str)
  ELSE str

\* a mutation of normalize: strips one blank at each end instead of all of them
normalize_TrimOne(str) ==
  LET l == toLowerCase(str)
      a == IF l # <<>> /\ IsWs(Head(l)) THEN Tail(l) ELSE l
      b == IF a # <<>> /\ IsWs(a[Len(a)]) THEN SubSeq(a, 1, Len(a) - 1) ELSE a
  IN collapseWs(b)

\* normalize of the IIFE
normalize(str) == collapseWs(trim(toLowerCase(toStringOrEmpty(str))))

\* normalize of the top-level script: lower case and trim, blanks inside kept
normalizeTop(str) == trim(toLowerCase(str))

\* String.prototype.includes
includes(s, q) == \E i \in 0..(Len(s) - Len(q)) : SubSeq(s, i + 1, i + Len(q)) = q

\* String.prototype.startsWith
startsWith(s, p) == Len(s) >= Len(p) /\ SubSeq(s, 1, Len(p)) = p

\* s.split(/\s+/)
RECURSIVE splitWsAcc(_, _, _)
splitWsAcc(s, cur, acc) ==
  IF s = <<>> THEN Append(acc, cur)
  ELSE IF IsWs(Head(s)) THEN splitWsAcc(trimStart(s), <<>>, Append(acc, cur))
  ELSE splitWsAcc(Tail(s), Append(cur, Head(s)), acc)
splitWs(s) == splitWsAcc(s, <<>>, <<>>)

\* s.split(c) for a one-character separator
RECURSIVE splitOnAcc(_, _, _, _)
splitOnAcc(s, c, cur, acc) ==
  IF s = <<>> THEN Append(acc, cur)
  ELSE IF Head(s) = c THEN splitOnAcc(Tail(s), c, <<>>, Append(acc, cur))
  ELSE splitOnAcc(Tail(s), c, Append(cur, Head(s)), acc)
splitOn(s, c) == splitOnAcc(s, c, <<>>, <<>>)

\* Array.prototype.filter(Boolean) on an array of strings
filterNonEmpty(a) == SelectSeq(a, LAMBDA x : x # <<>>)

\* Array.prototype.join(' ')
RECURSIVE joinSp(_)
joinSp(a) == IF a = <<>> THEN <<>>
             ELSE IF Len(a) = 1 THEN a[1]
             ELSE a[1] \o <<" ">> \o joinSp(Tail(a))

seqIncludes(a, x) == \E i \in 1..Len(a) : a[i] = x

(***************************************************************************)
(* Hash param helpers                                                      *)
(***************************************************************************)
\* a mutation of encodeChar: the separator characters are written as they are
encodeChar_Raw(c) == IF c = " " THEN <<"+">> ELSE <<c>>

\* application/x-www-form-urlencoded serializer of URLSearchParams.toString
encodeChar(c) == CASE c = " "  -> <<"+">>
                   [] c = "\t" -> <<"%09">>
                   [] c = "&"  -> <<"%26">>
                   [] c = "+"  -> <<"%2B">>
                   [] c = "="  -> <<"%3D">>
                   [] c = "?"  -> <<"%3F">>
                   [] c = "#"  -> <<"%23">>
                   [] OTHER    -> <<c>>

RECURSIVE formEncode(_)
formEncode(s) == IF s = <<>> THEN <<>> ELSE encodeChar(Head(s)) \o formEncode(Tail(s))

\* the parser of new URLSearchParams(text): '+' is a blank, %XX is decoded
decodeChar(c) == CASE c = "+"   -> " "
                   [] c = "%20" -> " "
                   [] c = "%09" -> "\t"
                   [] c = "%26" -> "&"
                   [] c = "%2B" -> "+"
                   [] c = "%3D" -> "="
                   [] c = "%3F" -> "?"
                   [] c = "%23" -> "#"
                   [] OTHER     -> c

formDecode(s) == [i \in 1..Len(s) |-> decodeChar(s[i])]

\* one name=value piece of a query string: split at the first '='
parsePair(piece) ==
  LET eq == {i \in 1..Len(piece) : piece[i] = "="}
      at == IF eq = {} THEN Len(piece) + 1 ELSE CHOOSE i \in eq : \A j \in eq : i <= j
  IN [name  |-> formDecode(SubSeq(piece, 1, at - 1)),
      value |-> formDecode(SubSeq(piece, at + 1, Len(piece)))]

\* new URLSearchParams(query): the list of pairs, empty pieces skipped
URLSearchParams(query) ==
  LET pieces == filterNonEmpty(splitOn(query, "&"))
  IN [i \in 1..Len(pieces) |-> parsePair(pieces[i])]

\* URLSearchParams.get: the first value of that name, or null
paramsGet(params, k) ==
  LET hits == {i \in 1..Len(params) : params[i].name = k}
  IN IF hits = {} THEN Null
     ELSE params[CHOOSE i \in hits : \A j \in hits : i <= j].value

\* v || '' for a getter result
orEmpty(v) == IF v = Null THEN <<>> ELSE v

\* what location.hash reads after the URL parser has taken a fragment:
\* a tab is dropped from the input and a blank is percent-encoded
RECURSIVE fragmentOf(_)
fragmentOf(s) == IF s = <<>> THEN <<>>
                 ELSE IF Head(s) = "\t" THEN fragmentOf(Tail(s))
                 ELSE IF Head(s) = " " THEN <<"%20">> \o fragmentOf(Tail(s))
                 ELSE <<Head(s)>> \o fragmentOf(Tail(s))

readHashParams(h) ==
  LET parts == splitOn(h, "?")
      query == IF Len(parts) >= 2 THEN parts[2] ELSE <<>>
  IN [anchor |-> parts[1], params |-> URLSearchParams(query)]

\* params.toString() of the pairs writeHashParams keeps
RECURSIVE serializePairs(_)
serializePairs(kv) ==
  IF kv = <<>> THEN <<>>
  ELSE LET one == formEncode(kv[1][1]) \o <<"=">> \o formEncode(kv[1][2])
       IN IF Len(kv) = 1 THEN one ELSE one \o <<"&">> \o serializePairs(Tail(kv))

\* writeHashParams(anchor, kv): the URL handed to history.replaceState, as
\* location.hash then reads it.  kv is the object literal, in key order.
writeHashParams(anchor, kv) ==
  LET trimmed == [i \in 1..Len(kv) |-> <<kv[i][1], trim(kv[i][2])>>]
      kept    == SelectSeq(trimmed, LAMBDA e : e[2] # <<>>)
      q       == serializePairs(kept)
      next    == IF q # <<>> THEN anchor \o <<"?">> \o q ELSE anchor
  IN fragmentOf(next)

PROJECTS == <<"#projects">>
ALL == <<"all">>
TAG == <<"tag">>
QUERY == <<"query">>

\* anchor === '#projects' || window.location.hash.startsWith('#projects')
atProjects(h) == readHashParams(h).anchor = PROJECTS \/ startsWith(h, PROJECTS)

(***************************************************************************)
(* The page the script runs on: three project cards, in document order,   *)
(* and the filter chips.                                                   *)
(***************************************************************************)
Projects == {1, 2, 3}

\* data-tags attribute of a card
dataTags(p) == CASE p = 1 -> <<"s">>
                 [] p = 2 -> <<" ", "O", " ", " ", "s">>
                 [] p = 3 -> <<"w">>

\* text of the card's h3
h3Text(p) == CASE p = 1 -> <<"a">>
               [] p = 2 -> <<"b">>
               [] p = 3 -> <<"o">>

\* textContent of the card (the h3 text is part of it)
textContent(p) == CASE p = 1 -> <<"a", " ", "b">>
                    [] p = 2 -> <<"b">>
                    [] p = 3 -> <<"o", "\t", "a">>

Chips == <<"chipAll", "chipS", "chipX">>
ChipIds == {Chips[i] : i \in 1..Len(Chips)}

\* data-filter attribute of a chip
dataFilter(c) == CASE c = "chipAll" -> ALL
                   [] c = "chipS" -> <<"s">>
                   [] c = "chipX" -> <<"x">>

\* the record initProjects builds for a card
indexEntry(p) ==
  LET tagsRaw == normalize(dataTags(p))
      tags    == IF tagsRaw # <<>> THEN filterNonEmpty(splitWs(tagsRaw)) ELSE <<>>
      title   == normalize(h3Text(p))
      body    == normalize(textContent(p))
  IN [tags |-> tags,
      blob |-> trim(title \o <<" ">> \o joinSp(tags) \o <<" ">> \o body)]

\* const index = projects.map(...): built once, when initProjects starts
indexTable == [p \in Projects |-> indexEntry(p)]
index(p) == indexTable[p]

\* a mutation of matchesFilter: the sentinel 'all' is looked up like a tag
matchesFilter_NoAll(item, activeFilter_) == seqIncludes(item.tags, activeFilter_)

matchesFilter(item, activeFilter_) ==
  IF activeFilter_ = ALL THEN TRUE ELSE seqIncludes(item.tags, activeFilter_)

matchesSearch(item, activeQuery_) ==
  IF activeQuery_ = <<>> THEN TRUE ELSE includes(item.blob, activeQuery_)

\* the style.display values applyFilters gives the cards
Shown == ""
Hidden == "none"

\* a mutation of cardDisplay: either predicate is enough for a card to show
cardDisplay_Or(filter, query) ==
  [p \in Projects |->
     IF matchesFilter(index(p), filter) \/ matchesSearch(index(p), query)
     THEN Shown ELSE Hidden]

cardDisplay(filter, query) ==
  [p \in Projects |->
     IF matchesFilter(index(p), filter) /\ matchesSearch(index(p), query)
     THEN Shown ELSE Hidden]

visibleCount(disp) == Cardinality({p \in Projects : disp[p] = Shown})

\* a mutation of noResultsDisplay: the two branches are swapped
noResultsDisplay_Swapped(disp) == IF visibleCount(disp) = 0 THEN Hidden ELSE Shown

noResultsDisplay(disp) == IF visibleCount(disp) = 0 THEN Shown ELSE Hidden

\* the URL part of applyFilters({updateUrl})
urlAfterApply(h, filter, query, updateUrl) ==
  IF updateUrl /\ (atProjects(h) \/ readHashParams(h).anchor = <<>>)
  THEN writeHashParams(PROJECTS,
         << <<TAG, IF filter # ALL THEN filter ELSE <<>> >>,
            <<QUERY, query>> >>)
  ELSE h

\* history.pushState: a new entry after the current one
pushState(len) == len + 1

\* a mutation of replaceState: the URL write adds an entry
replaceState_Push(len) == len + 1

\* history.replaceState: the current entry is rewritten
replaceState(len) == len

\* history.length after applyFilters({updateUrl}) at location.hash h
historyAfterApply(h, len, updateUrl) ==
  IF updateUrl /\ (atProjects(h) \/ readHashParams(h).anchor = <<>>)
  THEN replaceState(len)
  ELSE len

\* activeFilter = normalize(next) || 'all'
filterOf(next) == IF normalize(next) = <<>> THEN ALL ELSE normalize(next)

\* setChipPressed(chips.find(...)): aria-pressed of every chip
NoChip == "(undefined)"
RECURSIVE findChip(_, _)
findChip(i, filter) ==
  IF i > Len(Chips) THEN NoChip
  ELSE IF (IF dataFilter(Chips[i]) = <<>> THEN ALL ELSE dataFilter(Chips[i])) = filter
       THEN Chips[i] ELSE findChip(i + 1, filter)
\* a mutation of setChipPressed: the first chip is never released
setChipPressed_KeepFirst(chipEl) == [c \in ChipIds |-> c = chipEl \/ c = Chips[1]]

setChipPressed(chipEl) == [c \in ChipIds |-> c = chipEl]

\* the top-level script's predicates, over the DOM itself
matchesFilterTop(p, topFilter) ==
  IF topFilter = ALL THEN TRUE
  ELSE seqIncludes(splitWs(normalizeTop(dataTags(p))), topFilter)

matchesSearchTop(p, value) ==
  LET q == normalizeTop(value)
  IN IF q = <<>> THEN TRUE ELSE includes(normalizeTop(textContent(p)), q)

cardDisplayTop(topFilter, value) ==
  [p \in Projects |->
     IF matchesFilterTop(p, topFilter) /\ matchesSearchTop(p, value)
     THEN Shown ELSE Hidden]

(***************************************************************************)
(* Inputs                                                                  *)
(***************************************************************************)
\* longest burst of input events that is counted
MaxBurst == 3

\* longest session history explored
MaxHistory == 2

\* waits of the two search timers, in milliseconds
DebounceWait == 80
TopWait == 60

\* texts the visitor leaves in the search box
TypedTexts == { <<>>,
                <<" ", " ", "O">>,
                <<"s", "\t", " ", "a">>,
                <<"a", "&">> }

\* tag and query values of the deep links the page is opened with
LoadTags == { <<"W">>, <<"x">> }
LoadQueries == { <<>>, <<" ", "O">> }

deepLink(tag, query) ==
  fragmentOf(PROJECTS \o <<"?">> \o TAG \o <<"=">> \o formEncode(tag)
               \o <<"&">> \o QUERY \o <<"=">> \o formEncode(query))

\* location.hash when the script starts
LoadHashes ==
  { <<>>, <<"#about">>, PROJECTS, <<"#projects", "-title">>,
    <<"#projects", "-title", "?", "tag", "=", "s">>,
    <<"#projects", "?", "query", "=", "o">> }
  \cup { deepLink(tg, q) : tg \in LoadTags, q \in LoadQueries }

\* loadHash once the visitor has acted
Gone == <<"(gone)">>

\* arguments of a direct call of setFilter or setQuery
ApiInputs == { Null, Undefined, <<>>, <<" ", "\t">>, NumberValue(<<"0">>),
               <<" ", "S", " ">>, <<"x">>, <<"O">> }

\* what a click that closes the modal lands on
CloseTargets == {"backdrop", "closeButton", "modalLink"}

\* themeBefore while no click on #themeBtn has been dispatched
NoClick == "(no click)"

\* href of the in-page links whose target section exists
NavHrefs == { <<"#about">>, PROJECTS }

(***************************************************************************)
(* State                                                                   *)
(***************************************************************************)
VARIABLES
  phase,           \* how far the load-time code has run
  readyState,      \* document.readyState when the script starts
  storageThrows,   \* localStorage access throws in this browser
  topLoaded,       \* the top-level script ran to its end (its listeners exist)
  hash,            \* window.location.hash
  loadHash,        \* location.hash the page was opened with, kept until the
                   \* visitor's first event
  searchValue,     \* searchInput.value
  activeFilter,    \* initProjects: activeFilter
  activeQuery,     \* initProjects: activeQuery
  t,               \* debounce: a timeout is pending
  topActiveFilter, \* top-level script: activeFilter
  searchTimer,     \* top-level script: a timeout is pending
  display,         \* style.display of each card
  noResults,       \* style.display of #noResults
  pressed,         \* aria-pressed of each chip
  queue,           \* listeners of the event being dispatched, still to run
  lastCall,        \* the filter function that returned last
  lastArg,         \* the argument, when it was setFilter
  burstN,          \* input events of the current burst (saturating)
  burstFires,      \* timer callbacks run since the burst began (saturating)
  burstTight,      \* every event of the burst came while both timers were pending
  lastEvent,       \* the visitor's last filter event ("load" before the first)
  histLen,         \* history.length
  uncaught,        \* an exception has left script code
  yearSet,         \* #year holds the footer year
  dataTheme,       \* data-theme of the root element ("" when absent)
  storedTheme,     \* localStorage 'theme' ("" when absent)
  systemTheme,     \* what (prefers-color-scheme: light) gives
  mqTheme,         \* initTheme listens to system theme changes
  btnPressed,      \* aria-pressed of #themeBtn
  themeBefore,     \* data-theme when the last click on #themeBtn began
  modalHidden,     \* modal.hidden
  modalAria,       \* aria-hidden of the modal ("absent" without the attribute)
  locked,          \* initModal: locked
  prevOverflow,    \* initModal: prevOverflow
  prevPaddingRight,\* initModal: prevPaddingRight
  bodyOverflow,    \* document.body.style.overflow
  bodyPaddingRight,\* document.body.style.paddingRight
  scrollbar,       \* the window shows a scrollbar (innerWidth > clientWidth)
  navOpen,         \* nav.open of #navMobile
  navExpanded,     \* aria-expanded of its summary
  togglePending,   \* a toggle event of #navMobile waits to be dispatched
  mqMatches        \* (max-width: 940px) matches

pageVars  == <<phase, readyState, storageThrows, topLoaded, uncaught, yearSet>>
iifeVars  == <<activeFilter, activeQuery>>
domVars   == <<display, noResults, pressed, searchValue>>
timerVars == <<t, searchTimer>>
ghostVars == <<burstN, burstFires, burstTight>>
filterVars == <<hash, loadHash, searchValue, activeFilter, activeQuery, t,
                topActiveFilter, searchTimer, display, noResults, pressed,
                lastCall, lastArg, burstN, burstFires, burstTight, lastEvent,
                histLen>>
themeVars == <<dataTheme, storedTheme, systemTheme, mqTheme, btnPressed, themeBefore>>
modalVars == <<modalHidden, modalAria, locked, prevOverflow, prevPaddingRight>>
bodyVars  == <<bodyOverflow, bodyPaddingRight, scrollbar>>
navVars   == <<navOpen, navExpanded, togglePending, mqMatches>>
uiVars    == <<themeVars, modalVars, bodyVars, navVars>>
vars == <<phase, readyState, storageThrows, topLoaded, hash, loadHash, searchValue,
          activeFilter, activeQuery, t, topActiveFilter, searchTimer, display,
          noResults, pressed, queue, lastCall, lastArg,
          burstN, burstFires, burstTight, lastEvent, histLen, uncaught, yearSet,
          dataTheme, storedTheme, systemTheme, mqTheme, btnPressed, themeBefore,
          modalHidden, modalAria, locked, prevOverflow, prevPaddingRight,
          bodyOverflow, bodyPaddingRight, scrollbar,
          navOpen, navExpanded, togglePending, mqMatches>>

\* the document before any script has run
InitPage ==
  /\ phase = "start"
  /\ readyState \in {"loading", "interactive"}
  /\ storageThrows \in BOOLEAN
  /\ topLoaded = FALSE
  /\ searchValue = <<>>
  /\ activeFilter = ALL
  /\ activeQuery = <<>>
  /\ t = FALSE
  /\ topActiveFilter = ALL
  /\ searchTimer = FALSE
  /\ display = [p \in Projects |-> Shown]
  /\ noResults = Shown
  /\ pressed = [c \in ChipIds |-> c = "chipAll"]
  /\ queue = <<>>
  /\ lastCall = "none"
  /\ lastArg = <<>>
  /\ burstN = 0
  /\ burstFires = 0
  /\ burstTight = TRUE
  /\ lastEvent = "load"
  /\ histLen = 1
  /\ uncaught = FALSE
  /\ yearSet = FALSE
  /\ dataTheme = ""
  /\ mqTheme = FALSE
  /\ btnPressed = FALSE
  /\ themeBefore = NoClick
  /\ locked = FALSE
  /\ prevOverflow = ""
  /\ prevPaddingRight = ""
  /\ bodyOverflow = ""
  /\ bodyPaddingRight = ""
  /\ navOpen = FALSE
  /\ navExpanded = FALSE
  /\ togglePending = FALSE

\* a first visit in a dark-mode desktop window, the modal marked up as the
\* comment above initModal gives it
InitUi ==
  /\ storedTheme = ""
  /\ systemTheme = "dark"
  /\ modalHidden = TRUE
  /\ modalAria = "true"
  /\ scrollbar = FALSE
  /\ mqMatches = FALSE

\* the page opened at any of the fragments
Init ==
  /\ InitPage
  /\ InitUi
  /\ hash \in LoadHashes
  /\ loadHash = hash

(***************************************************************************)
(* initProjects' functions, as the state they leave                        *)
(***************************************************************************)
\* applyFilters({updateUrl}) with the given activeFilter / activeQuery
applyFilters(h, filter, query, updateUrl) ==
  LET disp == cardDisplay(filter, query)
  IN [display |-> disp, noResults |-> noResultsDisplay(disp),
      hash |-> urlAfterApply(h, filter, query, updateUrl)]

\* setFilter(next) from location.hash h and activeQuery query
setFilter(h, query, next) ==
  LET f == filterOf(next)
      r == applyFilters(h, f, query, TRUE)
  IN [activeFilter |-> f, pressed |-> setChipPressed(findChip(1, f)),
      display |-> r.display, noResults |-> r.noResults, hash |-> r.hash]

\* setQuery(q) from location.hash h and activeFilter filter
setQuery(h, filter, q) ==
  LET aq == normalize(q)
      r == applyFilters(h, filter, aq, TRUE)
  IN [activeQuery |-> aq,
      display |-> r.display, noResults |-> r.noResults, hash |-> r.hash]

\* applyFilters of the top-level script
applyFiltersTop(topFilter, value) ==
  LET disp == cardDisplayTop(topFilter, value)
  IN [display |-> disp, noResults |-> noResultsDisplay(disp)]

(***************************************************************************)
(* Theme, modal and mobile-nav functions, as the state they leave          *)
(***************************************************************************)
\* getStoredTheme(): null when the storage throws
getStoredTheme == IF storageThrows THEN "" ELSE storedTheme

\* setStoredTheme(theme): localStorage 'theme' afterwards
setStoredTheme(theme) == IF storageThrows THEN storedTheme ELSE theme

getSystemTheme == systemTheme

\* applyTheme(theme)
applyTheme(theme) ==
  [dataTheme |-> IF theme \in {"light", "dark"} THEN theme ELSE "",
   btnPressed |-> (theme = "light")]

\* the other theme: current === 'light' ? 'dark' : 'light'
otherTheme(current) == IF current = "light" THEN "dark" ELSE "light"

\* lockScroll() of initModal
lockScroll ==
  IF locked
  THEN [locked |-> locked, prevOverflow |-> prevOverflow,
        prevPaddingRight |-> prevPaddingRight,
        bodyOverflow |-> bodyOverflow, bodyPaddingRight |-> bodyPaddingRight]
  ELSE [locked |-> TRUE, prevOverflow |-> bodyOverflow,
        prevPaddingRight |-> bodyPaddingRight,
        bodyOverflow |-> "hidden",
        bodyPaddingRight |-> IF scrollbar THEN "sw" ELSE bodyPaddingRight]

\* unlockScroll() of initModal
unlockScroll ==
  IF ~locked
  THEN [locked |-> locked, prevOverflow |-> prevOverflow,
        prevPaddingRight |-> prevPaddingRight,
        bodyOverflow |-> bodyOverflow, bodyPaddingRight |-> bodyPaddingRight]
  ELSE [locked |-> FALSE, prevOverflow |-> prevOverflow,
        prevPaddingRight |-> prevPaddingRight,
        bodyOverflow |-> prevOverflow, bodyPaddingRight |-> prevPaddingRight]

\* a mutation of modalFlags: only the attribute is written
modalFlags_AriaOnly(open) ==
  [modalHidden |-> modalHidden, modalAria |-> IF open THEN "false" ELSE "true"]

\* setOpen(open) of initModal: modal.hidden and aria-hidden
modalFlags(open) ==
  [modalHidden |-> ~open, modalAria |-> IF open THEN "false" ELSE "true"]

\* setOpen(open) of initModal: the modal's two flags and the scroll lock
modalSetOpen(open) ==
  LET l == IF open THEN lockScroll ELSE unlockScroll
  IN [modalHidden |-> modalFlags(open).modalHidden,
      modalAria |-> modalFlags(open).modalAria,
      locked |-> l.locked, prevOverflow |-> l.prevOverflow,
      prevPaddingRight |-> l.prevPaddingRight,
      bodyOverflow |-> l.bodyOverflow, bodyPaddingRight |-> l.bodyPaddingRight]

\* setOpen(open) of initMobileNav; assigning nav.open a new value queues a
\* toggle event
navSetOpen(open) ==
  [navOpen |-> open, navExpanded |-> open,
   togglePending |-> (togglePending \/ open # navOpen),
   bodyOverflow |-> IF open THEN "hidden" ELSE ""]

(***************************************************************************)
(* Load-time code                                                          *)
(***************************************************************************)
\* boot(): initTheme, initFooterYear, initProjects, initModal, initMobileNav,
\* at once when the document is past 'loading', else on DOMContentLoaded,
\* after the top-level script
Boot ==
  /\ \/ phase = "start" /\ readyState # "loading"
     \/ phase = "topdone" /\ readyState = "loading"
  /\ phase' = IF phase = "start" THEN "booted" ELSE "ready"
  /\ LET r == readHashParams(hash)
     IN IF atProjects(hash)
        THEN LET tag   == normalize(orEmpty(paramsGet(r.params, TAG)))
                 query == orEmpty(paramsGet(r.params, QUERY))
                 a == setFilter(hash, activeQuery, IF tag # <<>> THEN tag ELSE ALL)
                 b == setQuery(a.hash, a.activeFilter, query)
             IN /\ activeFilter' = a.activeFilter
                /\ pressed' = a.pressed
                /\ searchValue' = query
                /\ activeQuery' = b.activeQuery
                /\ display' = b.display
                /\ noResults' = b.noResults
                /\ hash' = b.hash
                /\ histLen' = historyAfterApply(a.hash,
                                 historyAfterApply(hash, histLen, TRUE), TRUE)
                /\ lastCall' = "setQuery"
        ELSE LET r2 == applyFilters(hash, activeFilter, activeQuery, FALSE)
             IN /\ display' = r2.display
                /\ noResults' = r2.noResults
                /\ hash' = r2.hash
                /\ histLen' = historyAfterApply(hash, histLen, FALSE)
                /\ lastCall' = "applyFilters"
                /\ UNCHANGED <<activeFilter, activeQuery, pressed, searchValue>>
  /\ lastArg' = <<>>
  /\ LET stored  == getStoredTheme
         initial == IF stored # "" THEN stored ELSE getSystemTheme
         a == applyTheme(initial)
     IN /\ dataTheme' = a.dataTheme
        /\ btnPressed' = a.btnPressed
        /\ mqTheme' = (stored = "")
  /\ yearSet' = TRUE
  /\ modalAria' = IF modalAria = "absent" THEN "true" ELSE modalAria
  /\ modalHidden' = (modalAria' # "false")
  /\ LET n == navSetOpen(navOpen)
     IN /\ navOpen' = n.navOpen
        /\ navExpanded' = n.navExpanded
        /\ togglePending' = n.togglePending
        /\ bodyOverflow' = n.bodyOverflow
  /\ UNCHANGED <<readyState, storageThrows, topLoaded, uncaught, loadHash,
                 topActiveFilter, queue, lastEvent>>
  /\ UNCHANGED <<storedTheme, systemTheme, themeBefore, locked, prevOverflow,
                 prevPaddingRight, bodyPaddingRight, scrollbar, mqMatches>>
  /\ UNCHANGED timerVars
  /\ UNCHANGED ghostVars

\* the statements after the IIFE: localStorage.getItem is not guarded, so a
\* throwing storage ends the script there, before its listeners, its footer
\* year and its filter code
TopLevel ==
  /\ \/ phase = "start" /\ readyState = "loading"
     \/ phase = "booted"
  /\ phase' = IF phase = "start" THEN "topdone" ELSE "ready"
  /\ IF storageThrows
     THEN /\ uncaught' = TRUE
          /\ UNCHANGED <<topLoaded, topActiveFilter, display, noResults, lastCall,
                         dataTheme, yearSet>>
     ELSE LET r == applyFiltersTop(ALL, searchValue)
          IN /\ dataTheme' = IF storedTheme # "" THEN storedTheme ELSE dataTheme
             /\ yearSet' = TRUE
             /\ topLoaded' = TRUE
             /\ topActiveFilter' = ALL
             /\ display' = r.display
             /\ noResults' = r.noResults
             /\ lastCall' = "applyFiltersTop"
             /\ UNCHANGED uncaught
  /\ lastArg' = <<>>
  /\ UNCHANGED <<readyState, storageThrows, loadHash, hash, searchValue, pressed,
                 queue, lastEvent, histLen>>
  /\ UNCHANGED <<storedTheme, systemTheme, mqTheme, btnPressed, themeBefore>>
  /\ UNCHANGED <<modalVars, bodyVars, navVars>>
  /\ UNCHANGED iifeVars
  /\ UNCHANGED timerVars
  /\ UNCHANGED ghostVars

(***************************************************************************)
(* Events                                                                  *)
(***************************************************************************)
Idle == phase = "ready" /\ queue = <<>>

\* the listeners of one event target, in the order they were added
listeners(ev, chip) ==
  LET iife == [who |-> "iife", ev |-> ev, chip |-> chip]
      top  == [who |-> "top", ev |-> ev, chip |-> chip]
  IN IF ~topLoaded THEN <<iife>>
     ELSE IF readyState # "loading" THEN <<iife, top>> ELSE <<top, iife>>

\* a click on a chip (or Enter / Space on it, which calls chip.click())
ChipClick(c) ==
  /\ Idle
  /\ queue' = listeners("click", c)
  /\ loadHash' = Gone
  /\ lastCall' = "none"
  /\ lastArg' = <<>>
  /\ lastEvent' = c
  /\ UNCHANGED <<hash, topActiveFilter, histLen>>
  /\ UNCHANGED uiVars
  /\ UNCHANGED pageVars
  /\ UNCHANGED iifeVars
  /\ UNCHANGED domVars
  /\ UNCHANGED timerVars
  /\ UNCHANGED ghostVars

\* the chip listener of initProjects
ChipSetFilter ==
  /\ queue # <<>> /\ Head(queue).who = "iife" /\ Head(queue).ev = "click"
  /\ LET attr == dataFilter(Head(queue).chip)
         next == IF attr # <<>> THEN attr ELSE ALL
         a == setFilter(hash, activeQuery, next)
     IN /\ activeFilter' = a.activeFilter
        /\ pressed' = a.pressed
        /\ display' = a.display
        /\ noResults' = a.noResults
        /\ hash' = a.hash
        /\ lastArg' = next
  /\ histLen' = historyAfterApply(hash, histLen, TRUE)
  /\ lastCall' = "setFilter"
  /\ queue' = Tail(queue)
  /\ UNCHANGED <<activeQuery, searchValue, topActiveFilter, loadHash, lastEvent>>
  /\ UNCHANGED uiVars
  /\ UNCHANGED pageVars
  /\ UNCHANGED timerVars
  /\ UNCHANGED ghostVars

\* the chip listener of the top-level script
ChipTop ==
  /\ queue # <<>> /\ Head(queue).who = "top" /\ Head(queue).ev = "click"
  /\ LET attr == dataFilter(Head(queue).chip)
         f == IF attr # <<>> THEN attr ELSE ALL
         r == applyFiltersTop(f, searchValue)
     IN /\ pressed' = [c \in ChipIds |-> c = Head(queue).chip]
        /\ topActiveFilter' = f
        /\ display' = r.display
        /\ noResults' = r.noResults
  /\ lastCall' = "applyFiltersTop"
  /\ lastArg' = <<>>
  /\ queue' = Tail(queue)
  /\ UNCHANGED <<hash, searchValue, loadHash, lastEvent, histLen>>
  /\ UNCHANGED uiVars
  /\ UNCHANGED pageVars
  /\ UNCHANGED iifeVars
  /\ UNCHANGED timerVars
  /\ UNCHANGED ghostVars

\* the visitor edits the search box: an input event with the new value
InputEvent(v) ==
  /\ Idle
  /\ v # searchValue
  /\ searchValue' = v
  /\ queue' = listeners("input", NoChip)
  /\ IF t
     THEN /\ burstN' = IF burstN < MaxBurst THEN burstN + 1 ELSE burstN
          /\ burstTight' = (burstTight /\ (topLoaded => searchTimer))
          /\ UNCHANGED burstFires
     ELSE /\ burstN' = 1
          /\ burstFires' = 0
          /\ burstTight' = TRUE
  /\ loadHash' = Gone
  /\ lastCall' = "none"
  /\ lastArg' = <<>>
  /\ lastEvent' = "input"
  /\ UNCHANGED <<hash, topActiveFilter, display, noResults, pressed, histLen>>
  /\ UNCHANGED uiVars
  /\ UNCHANGED pageVars
  /\ UNCHANGED iifeVars
  /\ UNCHANGED timerVars

\* onSearch, the debounced listener: clearTimeout(t); t = setTimeout(.., 80)
OnSearch ==
  /\ queue # <<>> /\ Head(queue).who = "iife" /\ Head(queue).ev = "input"
  /\ t' = TRUE
  /\ queue' = Tail(queue)
  /\ UNCHANGED <<hash, topActiveFilter, searchTimer, lastCall, lastArg, loadHash,
                 lastEvent, histLen>>
  /\ UNCHANGED uiVars
  /\ UNCHANGED pageVars
  /\ UNCHANGED iifeVars
  /\ UNCHANGED domVars
  /\ UNCHANGED ghostVars

\* the top-level input listener: clearTimeout(searchTimer); setTimeout(.., 60)
InputTop ==
  /\ queue # <<>> /\ Head(queue).who = "top" /\ Head(queue).ev = "input"
  /\ searchTimer' = TRUE
  /\ queue' = Tail(queue)
  /\ UNCHANGED <<hash, topActiveFilter, t, lastCall, lastArg, loadHash,
                 lastEvent, histLen>>
  /\ UNCHANGED uiVars
  /\ UNCHANGED pageVars
  /\ UNCHANGED iifeVars
  /\ UNCHANGED domVars
  /\ UNCHANGED ghostVars

bump(n) == IF n < MaxBurst THEN n + 1 ELSE n

\* the debounce timeout runs: setQuery(searchInput.value).  Both timers are
\* set in the same event, so the one with the shorter wait runs first.
DebounceFire ==
  /\ Idle /\ t
  /\ ~(searchTimer /\ TopWait < DebounceWait)
  /\ LET b == setQuery(hash, activeFilter, searchValue)
     IN /\ activeQuery' = b.activeQuery
        /\ display' = b.display
        /\ noResults' = b.noResults
        /\ hash' = b.hash
  /\ t' = FALSE
  /\ lastCall' = "setQuery"
  /\ lastArg' = <<>>
  /\ burstFires' = bump(burstFires)
  /\ histLen' = historyAfterApply(hash, histLen, TRUE)
  /\ UNCHANGED <<activeFilter, pressed, searchValue, topActiveFilter, searchTimer,
                 queue, burstN, burstTight, loadHash, lastEvent>>
  /\ UNCHANGED uiVars
  /\ UNCHANGED pageVars

\* the top-level timeout runs: applyFilters of the top-level script
SearchTimerFire ==
  /\ Idle /\ searchTimer
  /\ ~(t /\ DebounceWait < TopWait)
  /\ LET r == applyFiltersTop(topActiveFilter, searchValue)
     IN /\ display' = r.display
        /\ noResults' = r.noResults
  /\ searchTimer' = FALSE
  /\ lastCall' = "applyFiltersTop"
  /\ lastArg' = <<>>
  /\ burstFires' = bump(burstFires)
  /\ UNCHANGED <<hash, pressed, searchValue, topActiveFilter, t, queue, burstN,
                 burstTight, loadHash, lastEvent, histLen>>
  /\ UNCHANGED uiVars
  /\ UNCHANGED pageVars
  /\ UNCHANGED iifeVars

\* Escape in the search box: value = ''; setQuery('')
Escape ==
  /\ Idle
  /\ searchValue' = <<>>
  /\ LET b == setQuery(hash, activeFilter, <<>>)
     IN /\ activeQuery' = b.activeQuery
        /\ display' = b.display
        /\ noResults' = b.noResults
        /\ hash' = b.hash
  /\ histLen' = historyAfterApply(hash, histLen, TRUE)
  /\ lastCall' = "setQuery"
  /\ lastArg' = <<>>
  /\ loadHash' = Gone
  /\ lastEvent' = "escape"
  /\ UNCHANGED <<activeFilter, pressed, topActiveFilter, queue>>
  /\ UNCHANGED uiVars
  /\ UNCHANGED pageVars
  /\ UNCHANGED timerVars
  /\ UNCHANGED ghostVars

\* a click on an in-page link: history.pushState(null, '', href)
AnchorClick(href) ==
  /\ Idle
  /\ histLen < MaxHistory
  /\ hash' = fragmentOf(href)
  /\ histLen' = pushState(histLen)
  /\ lastCall' = "none"
  /\ lastArg' = <<>>
  /\ loadHash' = Gone
  /\ lastEvent' = "anchor"
  /\ UNCHANGED <<topActiveFilter, queue>>
  /\ UNCHANGED uiVars
  /\ UNCHANGED pageVars
  /\ UNCHANGED iifeVars
  /\ UNCHANGED domVars
  /\ UNCHANGED timerVars
  /\ UNCHANGED ghostVars

(***************************************************************************)
(* Theme events                                                            *)
(***************************************************************************)
\* a click on #themeBtn
ThemeClick ==
  /\ Idle
  /\ queue' = listeners("theme", NoChip)
  /\ themeBefore' = dataTheme
  /\ UNCHANGED <<dataTheme, storedTheme, systemTheme, mqTheme, btnPressed>>
  /\ UNCHANGED <<modalVars, bodyVars, navVars>>
  /\ UNCHANGED pageVars
  /\ UNCHANGED filterVars

\* the click listener of initTheme
ThemeIife ==
  /\ queue # <<>> /\ Head(queue).who = "iife" /\ Head(queue).ev = "theme"
  /\ LET current == IF dataTheme # "" THEN dataTheme ELSE "dark"
         next == otherTheme(current)
         a == applyTheme(next)
     IN /\ dataTheme' = a.dataTheme
        /\ btnPressed' = a.btnPressed
        /\ storedTheme' = setStoredTheme(next)
  /\ queue' = Tail(queue)
  /\ UNCHANGED <<systemTheme, mqTheme, themeBefore>>
  /\ UNCHANGED <<modalVars, bodyVars, navVars>>
  /\ UNCHANGED pageVars
  /\ UNCHANGED filterVars

\* the click listener of the top-level script
ThemeTop ==
  /\ queue # <<>> /\ Head(queue).who = "top" /\ Head(queue).ev = "theme"
  /\ LET current == dataTheme
         next == otherTheme(current)
     IN IF current = ""
        THEN /\ dataTheme' = "light"
             /\ storedTheme' = "light"
        ELSE /\ dataTheme' = next
             /\ storedTheme' = next
  /\ queue' = Tail(queue)
  /\ UNCHANGED <<systemTheme, mqTheme, btnPressed, themeBefore>>
  /\ UNCHANGED <<modalVars, bodyVars, navVars>>
  /\ UNCHANGED pageVars
  /\ UNCHANGED filterVars

\* the system colour scheme changes: onChange of initTheme, when registered
SystemThemeChange ==
  /\ Idle
  /\ systemTheme' = otherTheme(systemTheme)
  /\ IF mqTheme
     THEN LET a == applyTheme(systemTheme')
          IN /\ dataTheme' = a.dataTheme
             /\ btnPressed' = a.btnPressed
     ELSE UNCHANGED <<dataTheme, btnPressed>>
  /\ themeBefore' = NoClick
  /\ UNCHANGED <<storedTheme, mqTheme, queue>>
  /\ UNCHANGED <<modalVars, bodyVars, navVars>>
  /\ UNCHANGED pageVars
  /\ UNCHANGED filterVars

(***************************************************************************)
(* Modal and mobile-nav events                                             *)
(***************************************************************************)
\* no listener is running and no toggle event is waiting
UiIdle == Idle /\ ~togglePending

\* the document-level listeners a click or a key press outside the nav
\* reaches after the element's own: initMobileNav's
navListener(ev) == [who |-> "nav", ev |-> ev, chip |-> NoChip]
modalListener(ev) == [who |-> "modal", ev |-> ev, chip |-> NoChip]

\* the state a call of initModal's setOpen leaves
ApplyModal(r) ==
  /\ modalHidden' = r.modalHidden
  /\ modalAria' = r.modalAria
  /\ locked' = r.locked
  /\ prevOverflow' = r.prevOverflow
  /\ prevPaddingRight' = r.prevPaddingRight
  /\ bodyOverflow' = r.bodyOverflow
  /\ bodyPaddingRight' = r.bodyPaddingRight

\* the state a call of initMobileNav's setOpen leaves
ApplyNav(n) ==
  /\ navOpen' = n.navOpen
  /\ navExpanded' = n.navExpanded
  /\ togglePending' = n.togglePending
  /\ bodyOverflow' = n.bodyOverflow

\* a click (or Enter) on a .open-modal button while the modal is closed: the
\* document click listeners of initModal and of initMobileNav, in that order
OpenModalClick ==
  /\ UiIdle /\ modalHidden
  /\ queue' = <<modalListener("open"), navListener("click")>>
  /\ UNCHANGED uiVars
  /\ UNCHANGED pageVars
  /\ UNCHANGED filterVars

\* initModal's document click listener: openFromDataset(btn) -> setOpen(true)
ModalOpen ==
  /\ queue # <<>> /\ Head(queue) = modalListener("open")
  /\ ApplyModal(modalSetOpen(TRUE))
  /\ queue' = Tail(queue)
  /\ UNCHANGED <<scrollbar, themeVars, navVars>>
  /\ UNCHANGED pageVars
  /\ UNCHANGED filterVars

\* a click on the backdrop, a close button or a link of the open modal, or
\* Escape pressed inside it: the modal's own listener, then initMobileNav's
\* document listener for that kind of event
ModalCloseEvent(target) ==
  /\ UiIdle /\ ~modalHidden
  /\ queue' = <<modalListener("close"),
                navListener(IF target = "escape" THEN "keydown" ELSE "click")>>
  /\ UNCHANGED uiVars
  /\ UNCHANGED pageVars
  /\ UNCHANGED filterVars

\* () => setOpen(false) of the backdrop, the close buttons, the links and
\* the Escape branch of the modal's keydown listener
ModalClose ==
  /\ queue # <<>> /\ Head(queue) = modalListener("close")
  /\ ApplyModal(modalSetOpen(FALSE))
  /\ queue' = Tail(queue)
  /\ UNCHANGED <<scrollbar, themeVars, navVars>>
  /\ UNCHANGED pageVars
  /\ UNCHANGED filterVars

\* initMobileNav's document click listener, the target outside the summary
\* and the panel
NavDocClick ==
  /\ queue # <<>> /\ Head(queue) = navListener("click")
  /\ IF navOpen
     THEN ApplyNav(navSetOpen(FALSE))
     ELSE UNCHANGED <<navVars, bodyOverflow>>
  /\ queue' = Tail(queue)
  /\ UNCHANGED <<mqMatches, bodyPaddingRight, scrollbar, themeVars, modalVars>>
  /\ UNCHANGED pageVars
  /\ UNCHANGED filterVars

\* initMobileNav's document keydown listener, the key being Escape
NavKeydown ==
  /\ queue # <<>> /\ Head(queue) = navListener("keydown")
  /\ IF navOpen
     THEN ApplyNav(navSetOpen(FALSE))
     ELSE UNCHANGED <<navVars, bodyOverflow>>
  /\ queue' = Tail(queue)
  /\ UNCHANGED <<mqMatches, bodyPaddingRight, scrollbar, themeVars, modalVars>>
  /\ UNCHANGED pageVars
  /\ UNCHANGED filterVars

\* Escape pressed with the focus outside the modal and the search box
PageEscape ==
  /\ UiIdle /\ modalHidden
  /\ queue' = <<navListener("keydown")>>
  /\ UNCHANGED uiVars
  /\ UNCHANGED pageVars
  /\ UNCHANGED filterVars

\* a click on the summary of #navMobile in the narrow layout: the document
\* listener leaves it alone and the <details> element flips its open state
NavSummaryClick ==
  /\ UiIdle /\ modalHidden /\ mqMatches
  /\ navOpen' = ~navOpen
  /\ togglePending' = TRUE
  /\ UNCHANGED <<navExpanded, mqMatches, queue>>
  /\ UNCHANGED <<themeVars, modalVars, bodyVars>>
  /\ UNCHANGED pageVars
  /\ UNCHANGED filterVars

\* the toggle event of #navMobile: setOpen(nav.open)
NavToggle ==
  /\ Idle /\ togglePending
  /\ LET n == navSetOpen(navOpen)
     IN /\ navOpen' = n.navOpen
        /\ navExpanded' = n.navExpanded
        /\ bodyOverflow' = n.bodyOverflow
  /\ togglePending' = FALSE
  /\ UNCHANGED <<mqMatches, bodyPaddingRight, scrollbar, queue>>
  /\ UNCHANGED <<themeVars, modalVars>>
  /\ UNCHANGED pageVars
  /\ UNCHANGED filterVars

\* a click on a mailto: or .pdf link inside the open panel: the nav's click
\* listener, then its document click listener
NavLinkClick ==
  /\ UiIdle /\ navOpen /\ modalHidden
  /\ queue' = <<navListener("link"), navListener("click")>>
  /\ UNCHANGED uiVars
  /\ UNCHANGED pageVars
  /\ UNCHANGED filterVars

\* the nav's click listener, the target inside a link: setOpen(false)
NavLink ==
  /\ queue # <<>> /\ Head(queue) = navListener("link")
  /\ ApplyNav(navSetOpen(FALSE))
  /\ queue' = Tail(queue)
  /\ UNCHANGED <<mqMatches, bodyPaddingRight, scrollbar, themeVars, modalVars>>
  /\ UNCHANGED pageVars
  /\ UNCHANGED filterVars

\* the window is resized across 940px: onChange of initMobileNav
MqChange ==
  /\ UiIdle
  /\ mqMatches' = ~mqMatches
  /\ IF ~mqMatches'
     THEN ApplyNav(navSetOpen(FALSE))
     ELSE UNCHANGED <<navOpen, navExpanded, togglePending, bodyOverflow>>
  /\ UNCHANGED <<bodyPaddingRight, scrollbar, queue, themeVars, modalVars>>
  /\ UNCHANGED pageVars
  /\ UNCHANGED filterVars

(***************************************************************************)
(* The object initProjects returns: { setFilter, setQuery }                *)
(***************************************************************************)
\* setFilter(v), called directly
ApiSetFilter(v) ==
  /\ Idle
  /\ LET a == setFilter(hash, activeQuery, v)
     IN /\ activeFilter' = a.activeFilter
        /\ pressed' = a.pressed
        /\ display' = a.display
        /\ noResults' = a.noResults
        /\ hash' = a.hash
  /\ histLen' = historyAfterApply(hash, histLen, TRUE)
  /\ lastCall' = "setFilter"
  /\ lastArg' = v
  /\ lastEvent' = "api"
  /\ loadHash' = Gone
  /\ UNCHANGED <<activeQuery, searchValue, topActiveFilter, queue>>
  /\ UNCHANGED pageVars
  /\ UNCHANGED timerVars
  /\ UNCHANGED ghostVars
  /\ UNCHANGED uiVars

\* setQuery(v), called directly
ApiSetQuery(v) ==
  /\ Idle
  /\ LET b == setQuery(hash, activeFilter, v)
     IN /\ activeQuery' = b.activeQuery
        /\ display' = b.display
        /\ noResults' = b.noResults
        /\ hash' = b.hash
  /\ histLen' = historyAfterApply(hash, histLen, TRUE)
  /\ lastCall' = "setQuery"
  /\ lastArg' = v
  /\ lastEvent' = "api"
  /\ loadHash' = Gone
  /\ UNCHANGED <<activeFilter, pressed, searchValue, topActiveFilter, queue>>
  /\ UNCHANGED pageVars
  /\ UNCHANGED timerVars
  /\ UNCHANGED ghostVars
  /\ UNCHANGED uiVars

Next ==
  \/ Boot
  \/ TopLevel
  \/ \E c \in ChipIds : ChipClick(c)
  \/ ChipSetFilter
  \/ ChipTop
  \/ \E v \in TypedTexts : InputEvent(v)
  \/ OnSearch
  \/ InputTop
  \/ DebounceFire
  \/ SearchTimerFire
  \/ Escape
  \/ \E h \in NavHrefs : AnchorClick(h)

Spec == Init /\ [][Next]_vars

\* the page opened with or without a filter in the fragment
InitApi ==
  /\ InitPage
  /\ InitUi
  /\ hash \in { <<>>, <<"#about">>, deepLink(<<"x">>, <<" ", "O">>) }
  /\ loadHash = hash

NextApi ==
  \/ Boot
  \/ TopLevel
  \/ \E v \in ApiInputs : ApiSetFilter(v)
  \/ \E v \in ApiInputs : ApiSetQuery(v)

\* setFilter and setQuery applied to every kind of argument
SpecApi == InitApi /\ [][NextApi]_vars

\* the page opened without a fragment, in a narrow or a wide window, with
\* or without a scrollbar, whatever the modal's markup says
InitModal ==
  /\ InitPage
  /\ storedTheme = ""
  /\ systemTheme = "dark"
  /\ modalHidden \in BOOLEAN
  /\ modalAria \in {"absent", "true", "false"}
  /\ scrollbar \in BOOLEAN
  /\ mqMatches \in BOOLEAN
  /\ hash = <<>>
  /\ loadHash = hash

NextModal ==
  \/ Boot
  \/ TopLevel
  \/ OpenModalClick
  \/ ModalOpen
  \/ \E target \in CloseTargets \cup {"escape"} : ModalCloseEvent(target)
  \/ ModalClose
  \/ NavDocClick
  \/ NavKeydown
  \/ PageEscape
  \/ NavSummaryClick
  \/ NavToggle
  \/ NavLinkClick
  \/ NavLink
  \/ MqChange

\* the load-time code and the events of the modal and the mobile nav
SpecModal == InitModal /\ [][NextModal]_vars

\* the page opened without a fragment, under every stored and system theme
InitTheme ==
  /\ InitPage
  /\ storedTheme \in {"", "light", "dark"}
  /\ systemTheme \in {"light", "dark"}
  /\ modalHidden = TRUE
  /\ modalAria = "true"
  /\ scrollbar = FALSE
  /\ mqMatches = FALSE
  /\ hash = <<>>
  /\ loadHash = hash

NextTheme ==
  \/ Boot
  \/ TopLevel
  \/ ThemeClick
  \/ ThemeIife
  \/ ThemeTop
  \/ SystemThemeChange

\* the load-time code and the theme events
SpecTheme == InitTheme /\ [][NextTheme]_vars

(***************************************************************************)
(* Properties                                                              *)
(***************************************************************************)
tagSet(p) == {index(p).tags[i] : i \in 1..Len(index(p).tags)}
isSubstring(q, s) == \E i \in 0..(Len(s) - Len(q)) : \A j \in 1..Len(q) : s[i + j] = q[j]
displayed == {p \in Projects : display[p] = Shown}
afterSet == lastCall \in {"setFilter", "setQuery"}

\* the (tag, query) pair a fragment carries: an absent tag is "all", an
\* absent query is empty
tagIn(h) == LET v == paramsGet(readHashParams(h).params, TAG)
            IN IF v = Null THEN ALL ELSE v
queryIn(h) == orEmpty(paramsGet(readHashParams(h).params, QUERY))

\* C1: when setFilter or setQuery has just returned, a card is displayed
\* exactly when (activeFilter is "all" or one of its tags) and (activeQuery is
\* empty or a substring of its blob), and the empty-state indicator is shown
\* exactly when no card is displayed.
C1_VisibilityAfterSet ==
  afterSet =>
    /\ \A p \in Projects :
         (p \in displayed) <=>
           /\ (activeFilter = ALL \/ activeFilter \in tagSet(p))
           /\ (activeQuery = <<>> \/ isSubstring(activeQuery, index(p).blob))
    /\ (noResults = Shown) <=> (displayed = {})

\* the scenario of the three cards: filter "s" and then query "o" leave the
\* second card alone
C1_Witness ==
  /\ lastCall = "setQuery"
  /\ activeFilter = <<"s">>
  /\ activeQuery = <<"o">>
  /\ displayed = {2}
  /\ noResults = Hidden

\* C2: once the load-time code has run on a page opened with
\* #projects?tag=t&query=q, the displayed cards and the FilterState are those
\* that setFilter(t) and then setQuery(q) leave on a page opened with no
\* fragment.
C2_DeepLinkSameAsManual ==
  \A tg \in LoadTags, q \in LoadQueries :
    (phase = "ready" /\ loadHash = deepLink(tg, q)) =>
      LET m1 == setFilter(<<>>, <<>>, tg)
          m2 == setQuery(m1.hash, m1.activeFilter, q)
      IN /\ display = m2.display
         /\ activeFilter = m1.activeFilter
         /\ activeQuery = m2.activeQuery

\* C3: when a burst of input events, each arriving while the timers of the
\* one before are still pending, is over, exactly one timer callback has
\* recomputed the visibility.
C3_OneRecomputePerBurst ==
  (burstN >= 2 /\ burstTight /\ ~t /\ ~searchTimer /\ queue = <<>>) =>
    burstFires = 1

\* C4: after initialization, whenever the fragment's anchor is #projects the
\* (tag, query) pair it carries is (activeFilter, activeQuery).
C4_FragmentMirrorsState ==
  (phase = "ready" /\ readHashParams(hash).anchor = PROJECTS) =>
    /\ tagIn(hash) = activeFilter
    /\ queryIn(hash) = activeQuery

\* C5: writing the FilterState with writeHashParams and reading it back with
\* readHashParams gives anchor #projects and the same (tag, query) pair; an
\* empty field is not written, with both empty the fragment is #projects alone;
\* and a fragment at #projects that setFilter or setQuery has just left is
\* that written fragment.
C5_HashRoundTrip ==
  LET w == writeHashParams(PROJECTS,
             << <<TAG, IF activeFilter # ALL THEN activeFilter ELSE <<>> >>,
                <<QUERY, activeQuery>> >>)
      r == readHashParams(w)
  IN /\ r.anchor = PROJECTS
     /\ tagIn(w) = activeFilter
     /\ queryIn(w) = activeQuery
     /\ (activeFilter = ALL) <=> (paramsGet(r.params, TAG) = Null)
     /\ (activeQuery = <<>>) <=> (paramsGet(r.params, QUERY) = Null)
     /\ (activeFilter = ALL /\ activeQuery = <<>>) => w = PROJECTS
     /\ (afterSet /\ readHashParams(hash).anchor = PROJECTS) => hash = w

\* a written fragment whose query needs escaping
C5_Witness ==
  /\ lastCall = "setQuery"
  /\ activeFilter = <<"s">>
  /\ activeQuery = <<"a", "&">>
  /\ hash = <<"#projects", "?", "tag", "=", "s", "&", "query", "=", "a", "%26">>

\* C6: when setFilter has just returned from a tag token that no card has,
\* no card is displayed and the empty-state indicator is shown, whatever
\* activeQuery is.
C6_UnknownTagShowsNothing ==
  (/\ lastCall = "setFilter"
   /\ lastArg # ALL
   /\ lastArg # <<>>
   /\ \A p \in Projects : lastArg \notin tagSet(p)) =>
    /\ displayed = {}
    /\ noResults = Shown

\* setFilter of the tag "x" that no card has, under a query that cards match
C6_Witness ==
  /\ lastCall = "setFilter"
  /\ lastArg = <<"x">>
  /\ activeQuery = <<"o">>
  /\ displayed = {}

\* C7: when setFilter("all") has just returned, the displayed cards are
\* exactly those whose blob holds activeQuery (all of them when it is empty).
C7_AllRestoresVisibility ==
  (lastCall = "setFilter" /\ lastArg = ALL) =>
    /\ \A p \in Projects :
         (p \in displayed) <=>
           (activeQuery = <<>> \/ isSubstring(activeQuery, index(p).blob))
    /\ activeQuery = <<>> => displayed = Projects

\* setFilter("all") under the query "o": the cards that carry "o"
C7_Witness ==
  /\ lastCall = "setFilter"
  /\ lastArg = ALL
  /\ activeQuery = <<"o">>
  /\ displayed = {2, 3}
  /\ pressed["chipAll"]

\* C8: from any state, setQuery(q) and setQuery(normalize(q)) leave the same
\* activeQuery, the same displayed cards and the same fragment, and
\* normalize(normalize(q)) = normalize(q).
C8_NormalizedQuerySame ==
  \A q \in TypedTexts \cup LoadQueries :
    /\ setQuery(hash, activeFilter, q) = setQuery(hash, activeFilter, normalize(q))
    /\ normalize(normalize(q)) = normalize(q)

\* setQuery has run on a text that is not its own normal form
C8_Witness ==
  /\ lastCall = "setQuery"
  /\ searchValue = <<" ", " ", "O">>
  /\ activeQuery = <<"o">>
  /\ normalize(searchValue) # searchValue

\* C9: opened with no fragment, or with one whose anchor is not #projects,
\* the page ends its load-time code with FilterState ("all", ""), every card
\* displayed and the fragment as it was.
C9_DefaultWithoutProjectsAnchor ==
  (/\ phase = "ready"
   /\ loadHash # Gone
   /\ readHashParams(loadHash).anchor # PROJECTS) =>
    /\ activeFilter = ALL
    /\ activeQuery = <<>>
    /\ displayed = Projects
    /\ hash = loadHash

\* C10: a step in which setFilter or setQuery runs while the fragment's anchor
\* is non-empty and not #projects leaves the fragment as it was.
C10_NoWriteOffProjects ==
  [][(/\ lastCall' \in {"setFilter", "setQuery"}
      /\ readHashParams(hash).anchor # <<>>
      /\ readHashParams(hash).anchor # PROJECTS) => hash' = hash]_vars

\* C11: a step of a filter operation (the load-time read of the fragment, a
\* chip click, a search input and its timers, Escape in the search box) leaves
\* history.length as it was; only a click on an in-page link changes it.
C11_FilterKeepsHistoryLength ==
  [][(lastEvent' # "anchor" \/ lastCall' # "none") => histLen' = histLen]_vars

\* a chip click, a search input and an Escape have each written the fragment
\* and the history still has its one entry
C11_Witness ==
  /\ lastEvent = "escape"
  /\ lastCall = "setQuery"
  /\ hash = <<"#projects", "?", "tag", "=", "s">>
  /\ histLen = 1

\* C12: with a localStorage that throws, no exception leaves script code, and
\* once the load-time code is over the top-level script has run to its end
\* (its footer year, its project filter and its listeners are in place).
C12_StorageFailureIsSilent ==
  storageThrows => (~uncaught /\ (phase = "ready" => topLoaded))

\* C15: when the listeners of a click on #themeBtn have all run (storage
\* working), data-theme is 'light' if it was 'dark' or unset before the click
\* and 'dark' if it was 'light', and the stored theme equals data-theme.
C15_ClickTogglesTheme ==
  (queue = <<>> /\ themeBefore # NoClick /\ ~storageThrows) =>
    /\ dataTheme = otherTheme(IF themeBefore = "" THEN "dark" ELSE themeBefore)
    /\ storedTheme = dataTheme

pressedChips == {c \in ChipIds : pressed[c]}

\* C13: when setFilter has just returned, and whenever no event is being
\* dispatched after the load, at most one chip is pressed and its data-filter
\* is the active filter; when the listeners of a chip click have all run, the
\* clicked chip is the one pressed chip.
C13_OnePressedChip ==
  /\ (lastCall = "setFilter" \/ (phase = "ready" /\ queue = <<>>)) =>
       /\ Cardinality(pressedChips) <= 1
       /\ \A c \in pressedChips :
            (IF dataFilter(c) = <<>> THEN ALL ELSE dataFilter(c)) = activeFilter
  /\ (queue = <<>> /\ lastEvent \in ChipIds) => pressedChips = {lastEvent}

\* the chip "x" clicked on a page whose "all" chip was pressed: once both
\* listeners have run, "x" alone is pressed
C13_Witness ==
  /\ lastCall = "setFilter"
  /\ queue = <<>>
  /\ lastEvent = "chipX"
  /\ activeFilter = <<"x">>
  /\ pressedChips = {"chipX"}
  /\ topActiveFilter = <<"x">>

\* null, undefined, the empty string or a string of blanks only
isBlank(v) == v \in {Null, Undefined} \/ \A i \in 1..Len(v) : IsWs(v[i])

\* C14: a direct call of setFilter with null, undefined, an empty or an
\* all-blank string leaves activeFilter "all", and such a call of setQuery
\* leaves activeQuery empty; the number 0 is taken as the string "0", and a
\* string as its lower-cased, trimmed form.
C14_BlankAndNonString ==
  lastEvent = "api" =>
    /\ (lastCall = "setFilter" /\ isBlank(lastArg)) => activeFilter = ALL
    /\ (lastCall = "setQuery" /\ isBlank(lastArg)) => activeQuery = <<>>
    /\ (lastCall = "setFilter" /\ lastArg = NumberValue(<<"0">>)) =>
         activeFilter = <<"0">>
    /\ (lastCall = "setQuery" /\ lastArg = NumberValue(<<"0">>)) =>
         activeQuery = <<"0">>
    /\ (lastCall = "setFilter" /\ lastArg = <<" ", "S", " ">>) =>
         activeFilter = <<"s">>
    /\ (lastCall = "setQuery" /\ lastArg = <<" ", "S", " ">>) =>
         activeQuery = <<"s">>

\* setQuery(undefined) after setFilter(null), on a page that had a filter and
\* a query: both are back at their defaults and every card is displayed
C14_Witness ==
  /\ lastEvent = "api"
  /\ lastCall = "setQuery"
  /\ lastArg = Undefined
  /\ activeFilter = ALL
  /\ activeQuery = <<>>
  /\ searchValue = <<" ", "O">>
  /\ display = [p \in Projects |-> Shown]

\* C16: between a setOpen(true) of the modal and the setOpen(false) that
\* follows it (the scroll lock is held), document.body.style.overflow is
\* 'hidden', whatever mobile-nav events come in between.
C16_ModalKeepsScrollLocked ==
  locked => bodyOverflow = "hidden"

\* C17: after the load, when no listener is running, no toggle event is
\* waiting and the modal and the mobile nav are both closed, the body is not
\* scroll-locked.
C17_ClosedMeansUnlocked ==
  (phase = "ready" /\ queue = <<>> /\ ~togglePending /\ modalHidden /\ ~navOpen) =>
    bodyOverflow # "hidden"

\* C20: once initModal has run, modal.hidden is true exactly when aria-hidden
\* is not 'false'; while the modal's scroll lock is held the modal is shown
\* (hidden false, aria-hidden 'false'), and when a close listener has just run
\* it is hidden (hidden true, aria-hidden 'true').
C20_HiddenAgreesWithAria ==
  phase \in {"booted", "ready"} =>
    /\ modalHidden <=> (modalAria # "false")
    /\ modalAria \in {"true", "false"}
    /\ locked => (~modalHidden /\ modalAria = "false")
    /\ (queue # <<>> /\ Head(queue).who = "nav" /\ ~locked) =>
         (modalHidden /\ modalAria = "true")

\* the modal, opened while the mobile nav was open, has just been closed by
\* a click on it
C20_Witness ==
  /\ phase = "ready"
  /\ queue = <<navListener("click")>>
  /\ ~locked
  /\ prevOverflow = "hidden"
  /\ modalHidden
  /\ modalAria = "true"

\* C18: when the last listener of a chip click returns, on a page where both
\* chip listeners are registered, the cards initProjects' listener displays
\* from its state and the cards the top-level listener displays from its
\* state are the same, so that the order of the two does not matter.
C18_ChipListenersAgree ==
  [][(queue # <<>> /\ queue' = <<>> /\ lastEvent \in ChipIds /\ topLoaded) =>
       cardDisplay(activeFilter', activeQuery')
         = cardDisplayTop(topActiveFilter', searchValue')]_vars

\* C19: from an Escape in the search box until the visitor's next event, once
\* no listener is running, the box is empty, activeQuery is empty and the
\* displayed cards are those the active filter selects.
C19_EscapeClearsQuery ==
  (lastEvent = "escape" /\ queue = <<>>) =>
    /\ searchValue = <<>>
    /\ activeQuery = <<>>
    /\ display = cardDisplay(activeFilter, <<>>)

====
